---- MODULE Spec2Model ----
(***************************************************************************)
(* Model of qinfer/abstract_model.py: the instrumentation counters of      *)
(* Simulatable and Model, Model's default simulate_experiment (inverse-CDF *)
(* sampling from likelihood) and Model.pr0_to_likelihood_array.            *)
(*                                                                         *)
(* Probabilities and uniform draws are rationals k/Denom held as the       *)
(* integer k: a probability is in 0..Denom, a draw of np.random.random in  *)
(* 0..Denom-1 (the half-open interval [0, 1)).                             *)
(*                                                                         *)
(* An instance is its attribute dictionary, a function from attribute      *)
(* names to values; an attribute that was never assigned is not in the     *)
(* DOMAIN and reading it raises AttributeError.                            *)
(***************************************************************************)
EXTENDS Integers, Sequences, FiniteSets, TLC

VARIABLES self, ctor, simCalls, likCalls, last

vars == <<self, ctor, simCalls, likCalls, last>>

\* ---------------------------------------------------------------- bounds
MaxModels == 2
MaxExperiments == 2
MaxOutcomes == 3
MaxRequested == 2
MaxRepeat == 2
MaxCalls == 2
MaxCells == 4
Denom == 3

\* ------------------------------------------------------------- arithmetic
RECURSIVE SumSeq(_)
SumSeq(s) == IF s = <<>> THEN 0 ELSE s[1] + SumSeq(Tail(s))

RECURSIVE Concatenate(_)
\* np.concatenate of a list of arrays along the leading axis
Concatenate(arrays) ==
    IF arrays = <<>> THEN <<>> ELSE arrays[1] \o Concatenate(Tail(arrays))

\* ------------------------------------------------------------ Simulatable
NoAttrs == [a \in {} |-> 0]

SetAttr(s, name, value) ==
    [a \in DOMAIN s \cup {name} |-> IF a = name THEN value ELSE s[a]]

\* Simulatable.__init__
Simulatable_init(s) == SetAttr(s, "_sim_count", 0)

\* Model.__init__: sets _call_count only, and does not call Simulatable.__init__
Model_init(s) == SetAttr(s, "_call_count", 0)

\* property sim_count: return self._sim_count
sim_count(s) ==
    IF "_sim_count" \in DOMAIN s
    THEN [raised |-> "none", value |-> s["_sim_count"]]
    ELSE [raised |-> "AttributeError", value |-> 0]

\* property call_count: return self._call_count
call_count(s) ==
    IF "_call_count" \in DOMAIN s
    THEN [raised |-> "none", value |-> s["_call_count"]]
    ELSE [raised |-> "AttributeError", value |-> 0]

\* A mutated base simulate_experiment that forgets to count.
Simulatable_simulate_experiment_NoCount(s, n_models, n_experiments, repeat) ==
    IF "_sim_count" \in DOMAIN s
    THEN [raised |-> "none", self |-> s]
    ELSE [raised |-> "AttributeError", self |-> s]

\* A mutated base simulate_experiment that bumps both counters.
Simulatable_simulate_experiment_BothCounters(s, n_models, n_experiments, repeat) ==
    IF "_sim_count" \in DOMAIN s
    THEN [raised |-> "none",
          self |-> [s EXCEPT !["_sim_count"] = @ + n_models * n_experiments * repeat,
                             !["_call_count"] = @ + n_models * n_experiments * repeat]]
    ELSE [raised |-> "AttributeError", self |-> s]

\* Simulatable.simulate_experiment:
\*   self._sim_count += modelparams.shape[0] * expparams.shape[0] * repeat
\* The augmented assignment reads the attribute first.
Simulatable_simulate_experiment(s, n_models, n_experiments, repeat) ==
    IF "_sim_count" \in DOMAIN s
    THEN [raised |-> "none",
          self |-> [s EXCEPT !["_sim_count"] = @ + n_models * n_experiments * repeat]]
    ELSE [raised |-> "AttributeError", self |-> s]

\* ------------------------------------------------------------------ Model
\* A mutated likelihood counter that uses the model's total outcome count
\* in place of the length of the requested outcome array.
likelihood_TotalOutcomes(s, n_outcomes, n_models, n_experiments) ==
    [s EXCEPT !["_call_count"] = @ + MaxOutcomes * n_models * n_experiments]

\* Model.likelihood:
\*   self._call_count += outcomes.shape[0] * modelparams.shape[0] * expparams.shape[0]
likelihood(s, n_outcomes, n_models, n_experiments) ==
    [s EXCEPT !["_call_count"] = @ + n_outcomes * n_models * n_experiments]

\* np.arange(self.n_outcomes(expparams)): n_outcomes returns one count per
\* experiment; an array of exactly one element converts to a scalar, any
\* other length raises.
arange(nout) ==
    IF Len(nout) = 1
    THEN [raised |-> "none", outcomes |-> [i \in 1..nout[1] |-> i - 1]]
    ELSE [raised |-> "arange", outcomes |-> <<>>]

\* ndarray.ravel() in C order of a tensor of shape
\* (n_outcomes, n_models, n_experiments): probabilities[o+1][m][e]
Ravel(probabilities) ==
    Concatenate([o \in 1..Len(probabilities) |->
        Concatenate(probabilities[o])])

\* np.cumsum(probabilities): no axis argument, so the flattened array
cumsum(probabilities) ==
    LET flat == Ravel(probabilities)
    IN  [k \in 1..Len(flat) |-> SumSeq(SubSeq(flat, 1, k))]

\* A mutated comparison: cdf >= randnum
argmax_GreaterEq(cdf, u) ==
    IF \E k \in 1..Len(cdf) : cdf[k] >= u
    THEN (CHOOSE k \in 1..Len(cdf) :
            /\ cdf[k] >= u
            /\ \A j \in 1..(k - 1) : ~(cdf[j] >= u)) - 1
    ELSE 0

\* A mutated argmax that reports one past the end when no entry is True.
argmax_PastEnd(cdf, u) ==
    IF \E k \in 1..Len(cdf) : cdf[k] > u
    THEN (CHOOSE k \in 1..Len(cdf) :
            /\ cdf[k] > u
            /\ \A j \in 1..(k - 1) : ~(cdf[j] > u)) - 1
    ELSE Len(cdf)

\* One row of np.argmax(cdf > randnum, axis=1): the index (from 0) of the
\* first True of cdf > u, and 0 when no entry is True.
argmax(cdf, u) ==
    IF \E k \in 1..Len(cdf) : cdf[k] > u
    THEN (CHOOSE k \in 1..Len(cdf) :
            /\ cdf[k] > u
            /\ \A j \in 1..(k - 1) : ~(cdf[j] > u)) - 1
    ELSE 0

\* A mutated return that never unwraps the single draw.
Return_AlwaysArray(outcomes, repeat) ==
    [kind |-> "array", values |-> outcomes]

\* return outcomes[0] if repeat==1 else outcomes
Return(outcomes, repeat) ==
    IF repeat = 1
    THEN [kind |-> "scalar", values |-> <<outcomes[1]>>]
    ELSE [kind |-> "array", values |-> outcomes]

NoReturn == [kind |-> "none", values |-> <<>>]

\* Model.simulate_experiment, the default derived from likelihood.
\*   n_models, repeat : modelparams.shape[0], repeat
\*   nout             : what the concrete n_outcomes(expparams) returns, one
\*                      count per experiment (expparams.shape[0] = Len(nout))
\*   fail             : where the concrete subclass raises, if anywhere
\*   probabilities    : what the concrete likelihood returns
\*   randnum          : the draws of np.random.random((repeat, 1))
Model_simulate_experiment(s, n_models, nout, repeat, fail, probabilities, randnum) ==
    LET n_experiments == Len(nout)
        counted == Simulatable_simulate_experiment(s, n_models, n_experiments, repeat)
        idx     == arange(nout)
        called  == likelihood(counted.self, Len(idx.outcomes), n_models, n_experiments)
        cdf     == cumsum(probabilities)
        outcomes == [r \in 1..repeat |-> argmax(cdf, randnum[r])]
    IN  IF counted.raised # "none"
        THEN [raised |-> counted.raised, self |-> counted.self,
              requested |-> 0, ret |-> NoReturn]
        ELSE IF fail = "n_outcomes"
        THEN [raised |-> "n_outcomes", self |-> counted.self,
              requested |-> 0, ret |-> NoReturn]
        ELSE IF idx.raised # "none"
        THEN [raised |-> idx.raised, self |-> counted.self,
              requested |-> 0, ret |-> NoReturn]
        ELSE IF fail = "likelihood"
        THEN [raised |-> "likelihood", self |-> called,
              requested |-> Len(idx.outcomes), ret |-> NoReturn]
        ELSE [raised |-> "none", self |-> called,
              requested |-> Len(idx.outcomes), ret |-> Return(outcomes, repeat)]

\* A mutated helper that tests for outcome 1 in place of outcome 0.
pr0_to_likelihood_array_TestsOne(outcomes, pr0) ==
    LET OneMinus == [m \in 1..Len(pr0) |->
                        [e \in 1..Len(pr0[m]) |-> Denom - pr0[m][e]]]
    IN  Concatenate([idx \in 1..Len(outcomes) |->
            IF outcomes[idx] = 1 THEN <<OneMinus>> ELSE <<pr0>>])

\* Model.pr0_to_likelihood_array:
\*   pr0 = pr0[np.newaxis, ...]
\*   np.concatenate([pr0 if outcomes[idx] == 0 else 1 - pr0 for idx in ...])
\* 1 - pr0 is Denom - pr0 in units of 1/Denom.
pr0_to_likelihood_array(outcomes, pr0) ==
    LET OneMinus == [m \in 1..Len(pr0) |->
                        [e \in 1..Len(pr0[m]) |-> Denom - pr0[m][e]]]
    IN  Concatenate([idx \in 1..Len(outcomes) |->
            IF outcomes[idx] = 0 THEN <<pr0>> ELSE <<OneMinus>>])

\* ----------------------------------------------------------------- inputs
Probability == 0..Denom
Draw == 0..(Denom - 1)

\* arrays of shape (n_models, n_experiments)
Matrices(n_models, n_experiments) ==
    [1..n_models -> [1..n_experiments -> Probability]]

\* arrays of shape (n_outcomes, n_models, n_experiments)
Tensors(n_outcomes, n_models, n_experiments) ==
    [1..n_outcomes -> Matrices(n_models, n_experiments)]

\* the tensor of a model under which outcome 0 is certain
CertainZero(n_outcomes, n_models, n_experiments) ==
    [o \in 1..n_outcomes |-> [m \in 1..n_models |->
        [e \in 1..n_experiments |-> IF o = 1 THEN Denom ELSE 0]]]

\* outcome counts, one per experiment
OutcomeCounts(n_experiments) == [1..n_experiments -> 1..MaxOutcomes]

\* the smallest and the largest size of a batch dimension
Extremes(n) == {1, n}

UniformCounts(n_experiments) ==
    {[e \in 1..n_experiments |-> c] : c \in Extremes(MaxOutcomes)}

FailPoints == {"none", "n_outcomes", "likelihood"}

\* ------------------------------------------------------------------ state
NoCall ==
    [op |-> "init", raised |-> "none", before |-> NoAttrs,
     n_models |-> 0, nout |-> <<>>, repeat |-> 0, requested |-> 0,
     probabilities |-> <<>>, randnum |-> <<>>, ret |-> NoReturn,
     outcomes |-> <<>>, pr0 |-> <<>>, result |-> <<>>]

\* An instance built by Model's own initializer, or by a concrete subclass
\* whose initializer runs both Simulatable.__init__ and Model.__init__.
Init ==
    /\ ctor \in {"Model", "Subclass"}
    /\ self = IF ctor = "Model"
              THEN Model_init(NoAttrs)
              ELSE Model_init(Simulatable_init(NoAttrs))
    /\ simCalls = <<>>
    /\ likCalls = <<>>
    /\ last = NoCall

\* one call of simulate_experiment where Model's default is the one that runs
SimulateExperiment(n_models, nout, repeat, fail, probabilities, randnum) ==
    LET r == Model_simulate_experiment(self, n_models, nout, repeat, fail,
                                       probabilities, randnum)
        reached == r.raised \in {"none", "likelihood"}
    IN  /\ self' = r.self
        /\ simCalls' = Append(simCalls,
               [n_models |-> n_models, n_experiments |-> Len(nout),
                repeat |-> repeat])
        /\ likCalls' = IF reached
                       THEN Append(likCalls,
                              [n_outcomes |-> r.requested, n_models |-> n_models,
                               n_experiments |-> Len(nout)])
                       ELSE likCalls
        /\ last' = [NoCall EXCEPT
               !.op = "simulate_experiment", !.raised = r.raised,
               !.before = self, !.n_models = n_models, !.nout = nout,
               !.repeat = repeat, !.requested = r.requested,
               !.probabilities = IF r.raised = "none" THEN probabilities ELSE <<>>,
               !.randnum = IF r.raised = "none" THEN randnum ELSE <<>>,
               !.ret = r.ret]
        /\ UNCHANGED ctor

\* one direct call of a concrete likelihood that runs the base instrumentation
Likelihood(n_outcomes, n_models, n_experiments) ==
    /\ self' = likelihood(self, n_outcomes, n_models, n_experiments)
    /\ likCalls' = Append(likCalls,
           [n_outcomes |-> n_outcomes, n_models |-> n_models,
            n_experiments |-> n_experiments])
    /\ last' = [NoCall EXCEPT
           !.op = "likelihood", !.before = self, !.n_models = n_models,
           !.requested = n_outcomes]
    /\ UNCHANGED <<ctor, simCalls>>

\* one call of the static helper
Pr0ToLikelihoodArray(outcomes, pr0) ==
    /\ last' = [NoCall EXCEPT
           !.op = "pr0_to_likelihood_array", !.before = self,
           !.outcomes = outcomes, !.pr0 = pr0,
           !.result = pr0_to_likelihood_array(outcomes, pr0)]
    /\ UNCHANGED <<self, ctor, simCalls, likCalls>>

\* ------------------------------------------------- counting specification
\* Sequences of calls; every batch dimension takes its smallest and its
\* largest size, and the likelihood is that of CertainZero.
LikelihoodCall ==
    /\ Len(simCalls) + Len(likCalls) < MaxCalls
    /\ \E n_outcomes \in {0} \cup Extremes(MaxRequested),
          n_models \in Extremes(MaxModels),
          n_experiments \in Extremes(MaxExperiments) :
            Likelihood(n_outcomes, n_models, n_experiments)

SimulateCall ==
    /\ Len(simCalls) + Len(likCalls) < MaxCalls
    /\ \E n_models \in Extremes(MaxModels),
          n_experiments \in Extremes(MaxExperiments),
          repeat \in Extremes(MaxRepeat), fail \in FailPoints :
        \E nout \in UniformCounts(n_experiments) :
            SimulateExperiment(n_models, nout, repeat, fail,
                CertainZero(nout[1], n_models, n_experiments),
                [r \in 1..repeat |-> 0])

Next == LikelihoodCall \/ SimulateCall

Spec == Init /\ [][Next]_vars

\* ------------------------------------- one simulation, every input varied
SimulateOnce ==
    /\ last.op = "init"
    /\ \E n_models \in 1..MaxModels, n_experiments \in 1..MaxExperiments,
          repeat \in 1..MaxRepeat, fail \in FailPoints :
        \E nout \in OutcomeCounts(n_experiments) :
            IF /\ sim_count(self).raised = "none"
               /\ fail = "none"
               /\ arange(nout).raised = "none"
            THEN \* likelihood returns and the sampling runs
                 /\ nout[1] * n_models <= MaxCells
                 /\ \E probabilities \in Tensors(nout[1], n_models, 1),
                       randnum \in [1..repeat -> Draw] :
                         SimulateExperiment(n_models, nout, repeat, fail,
                                            probabilities, randnum)
            ELSE \* the call raises before likelihood returns anything
                 SimulateExperiment(n_models, nout, repeat, fail, <<>>, <<>>)

NextSim == SimulateOnce

SpecSim == Init /\ [][NextSim]_vars

\* --------------------------------------- the static helper on every input
Pr0Call ==
    /\ last.op = "init"
    /\ \E n_models \in 1..MaxModels, n_experiments \in 1..MaxExperiments,
          n_requested \in 1..MaxRequested :
        /\ n_models * n_experiments <= MaxCells
        /\ \E outcomes \in [1..n_requested -> 0..MaxOutcomes],
              pr0 \in Matrices(n_models, n_experiments) :
                Pr0ToLikelihoodArray(outcomes, pr0)

NextPr0 == Pr0Call

SpecPr0 == Init /\ [][NextPr0]_vars

\* ----------------------------------------------------------------- claims
SimProduct(c) == c.n_models * c.n_experiments * c.repeat
LikProduct(c) == c.n_outcomes * c.n_models * c.n_experiments

RECURSIVE SumSimCalls(_)
SumSimCalls(calls) ==
    IF calls = <<>> THEN 0
    ELSE SimProduct(calls[1]) + SumSimCalls(Tail(calls))

RECURSIVE SumLikCalls(_)
SumLikCalls(calls) ==
    IF calls = <<>> THEN 0
    ELSE LikProduct(calls[1]) + SumLikCalls(Tail(calls))

Simulated == last.op = "simulate_experiment"
Sampled == Simulated /\ last.raised = "none"
SinglePair == last.n_models = 1 /\ Len(last.nout) = 1

\* P(0) + ... + P(o) of the single (model, experiment) pair
CumProb(o) == SumSeq([j \in 1..(o + 1) |-> last.probabilities[j][1][1]])

\* the sum of every entry of the likelihood tensor
TotalProb ==
    SumSeq([o \in 1..Len(last.probabilities) |->
        SumSeq([m \in 1..last.n_models |-> last.probabilities[o][m][1]])])

\* C1: on an instance built by Model's own initializer, sim_count is readable,
\* is 0 before any call, and after any sequence of simulate_experiment calls
\* equals the sum over the calls of n_models * n_experiments * repeat.
C1_SimCountIsSum ==
    ctor = "Model" =>
        /\ sim_count(self).raised = "none"
        /\ sim_count(self).value = SumSimCalls(simCalls)

\* C2: call_count starts at 0 and after any sequence of likelihood calls equals
\* the sum over the calls of len(outcomes) * n_models * n_experiments, with the
\* length of the requested outcome array, each call adding its product once.
C2_CallCountIsSum ==
    /\ call_count(self).raised = "none"
    /\ call_count(self).value = SumLikCalls(likCalls)

C2_Witness ==
    /\ Len(likCalls) = 2
    /\ likCalls[1].n_outcomes # likCalls[2].n_outcomes
    /\ likCalls[2].n_outcomes \in 1..(MaxOutcomes - 1)
    /\ call_count(self).value > LikProduct(likCalls[2])

\* C3 as stated: a call to simulate_experiment leaves every attribute of the
\* instance but _sim_count as it was, call_count included.
C3_OnlySimCountChanges ==
    Simulated =>
        /\ DOMAIN self = DOMAIN last.before
        /\ \A a \in DOMAIN self \ {"_sim_count"} : self[a] = last.before[a]

\* C3 amended: a call to Model's default simulate_experiment adds or removes no
\* attribute and changes only the two counters; call_count grows by
\* c * n_models * n_experiments, c the first experiment's outcome count, when
\* the call reaches likelihood, and keeps its value when the call fails
\* before that.
C3_CallCountGrowsByLikelihood ==
    Simulated =>
        /\ DOMAIN self = DOMAIN last.before
        /\ \A a \in DOMAIN self \ {"_sim_count", "_call_count"} :
              self[a] = last.before[a]
        /\ call_count(self).value = call_count(last.before).value +
              (IF last.raised \in {"none", "likelihood"}
               THEN last.nout[1] * last.n_models * Len(last.nout)
               ELSE 0)

C3_Witness ==
    /\ Sampled
    /\ call_count(last.before).value > 0
    /\ call_count(self).value > call_count(last.before).value

\* C4: with more than one model row or experiment, every returned outcome is an
\* outcome index in 0 .. n_outcomes-1.
C4_BatchedOutcomesInRange ==
    (Sampled /\ last.n_models * Len(last.nout) > 1) =>
        \A r \in 1..Len(last.ret.values) :
            last.ret.values[r] \in 0..(last.nout[1] - 1)

\* C5: on a single (model, experiment) pair whose likelihood sums to 1, for
\* every draw u the returned outcome is the smallest index o with
\* P(0) + ... + P(o) > u.
C5_SmallestIndexAboveDraw ==
    (Sampled /\ SinglePair /\ CumProb(last.nout[1] - 1) = Denom) =>
        \A r \in 1..last.repeat :
            LET o == last.ret.values[r]
            IN  /\ o \in 0..(last.nout[1] - 1)
                /\ CumProb(o) > last.randnum[r]
                /\ \A j \in 0..(o - 1) : CumProb(j) <= last.randnum[r]

C5_Witness ==
    /\ Sampled /\ SinglePair /\ CumProb(last.nout[1] - 1) = Denom
    /\ \E r \in 1..last.repeat :
          /\ last.ret.values[r] = 2
          /\ CumProb(0) > 0
          /\ CumProb(1) = last.randnum[r]

\* C6: with several experiments the default simulate_experiment raises no error
\* of its own and evaluates likelihood on 0 .. c-1, c the first experiment's
\* outcome count.
C6_FirstCountUsed ==
    (Simulated /\ Len(last.nout) > 1
       /\ last.raised \notin {"AttributeError", "n_outcomes", "likelihood"}) =>
        /\ last.raised = "none"
        /\ last.requested = last.nout[1]

\* C7 as stated: when the cumulative probability never exceeds a draw, the call
\* raises or returns an out-of-range outcome index for that draw.
C7_AnomalyManifests ==
    Sampled =>
        \A r \in 1..last.repeat :
            TotalProb <= last.randnum[r] =>
                last.ret.values[r] \notin 0..(last.nout[1] - 1)

\* C7 amended: when the cumulative probability never exceeds a draw, the call
\* returns normally with outcome index 0 for that draw.
C7_AnomalyReturnsZero ==
    Sampled =>
        \A r \in 1..last.repeat :
            TotalProb <= last.randnum[r] => last.ret.values[r] = 0

C7_Witness ==
    /\ Sampled /\ last.nout[1] > 1
    /\ \E r \in 1..last.repeat :
          /\ TotalProb > 0
          /\ TotalProb <= last.randnum[r]
          /\ last.ret.values[r] = 0

\* C8: on a single (model, experiment) pair the call returns a scalar outcome
\* when repeat = 1 and an array of exactly repeat outcomes when repeat > 1.
C8_ScalarWhenRepeatIsOne ==
    (Sampled /\ SinglePair) =>
        /\ last.repeat = 1 => last.ret.kind = "scalar"
        /\ last.repeat > 1 =>
              last.ret.kind = "array" /\ Len(last.ret.values) = last.repeat

C8_Witness ==
    /\ Sampled /\ SinglePair
    /\ last.repeat = 1
    /\ last.ret.kind = "scalar"
    /\ last.ret.values[1] > 0

\* C9: pr0_to_likelihood_array returns a tensor of shape
\* (len(outcomes), n_models, n_experiments) whose slice i is pr0 when
\* outcomes[i] = 0 and 1 - pr0 otherwise; for outcomes [0, 1] the slices sum
\* to 1 everywhere.
C9_Pr0Slices ==
    last.op = "pr0_to_likelihood_array" =>
        LET L == last.result
            pr0 == last.pr0
        IN  /\ Len(L) = Len(last.outcomes)
            /\ \A i \in 1..Len(L) :
                  /\ Len(L[i]) = Len(pr0)
                  /\ \A m \in 1..Len(pr0) :
                        /\ Len(L[i][m]) = Len(pr0[m])
                        /\ \A e \in 1..Len(pr0[m]) :
                              L[i][m][e] = IF last.outcomes[i] = 0
                                           THEN pr0[m][e]
                                           ELSE Denom - pr0[m][e]
            /\ last.outcomes = <<0, 1>> =>
                  \A m \in 1..Len(pr0) : \A e \in 1..Len(pr0[m]) :
                      L[1][m][e] + L[2][m][e] = Denom

C9_Witness ==
    /\ last.op = "pr0_to_likelihood_array"
    /\ last.outcomes = <<2, 0>>
    /\ Len(last.pr0) = 2 /\ Len(last.pr0[1]) = 2
    /\ last.pr0[1][1] = 1 /\ last.pr0[2][2] = 0
    /\ last.result[1][1][1] = Denom - 1
    /\ last.result[2][1][1] = 1

\* C10: when n_outcomes or likelihood fails inside the default
\* simulate_experiment, sim_count stays increased by
\* n_models * n_experiments * repeat.
C10_CountKeptOnFailure ==
    (Simulated /\ last.raised \in {"n_outcomes", "arange", "likelihood"}) =>
        sim_count(self).value = sim_count(last.before).value +
            last.n_models * Len(last.nout) * last.repeat

C10_Witness ==
    /\ Simulated
    /\ last.raised = "likelihood"
    /\ sim_count(last.before).value > 0
    /\ sim_count(self).value > sim_count(last.before).value

====
